---- MODULE Spec2Model ----
(***************************************************************************)
(* jsonnet-exporter (src/src/main.rs): start-up validation of the module   *)
(* registry, the /probe request handler, and the Module::eval pipeline     *)
(* (bind input, evaluate, decode the manifest, render the exposition).     *)
(*                                                                         *)
(* Texts (HTTP bodies, JSON encodings, jsonnet snippets) are sequences of  *)
(* tokens; JSON values, manifests and exposition texts are records and     *)
(* sequences.  An Option is a sequence of length 0 (None) or 1 (Some).     *)
(* A Result is a record whose kind is "ok", "err" or "panic" (an unwrap,   *)
(* expect or library panic unwinding out of the call).                     *)
(***************************************************************************)
EXTENDS Integers, Sequences, FiniteSets, TLC

\* ------------------------------------------------------------------ bounds
\* Number of /probe requests that may be in flight at the same time.
MaxRequests == 2

Requests == 1..MaxRequests

\* ------------------------------------------------------------ JSON values
None == <<>>
Some(x) == <<x>>

Num(n) == [t |-> "num", n |-> n, s |-> <<>>]
Str(s) == [t |-> "str", n |-> 0, s |-> s]

Digits == <<"0", "1", "2">>
DigitSet == {Digits[i] : i \in 1..Len(Digits)}
DigitValue(c) == (CHOOSE i \in 1..Len(Digits) : Digits[i] = c) - 1
DigitOf(n) == Digits[n + 1]

\* The byte 0xFF, which no UTF-8 text contains.
BadByte == "0xFF"

Ok(v) == [kind |-> "ok", v |-> Some(v), e |-> "none"]
Err(e) == [kind |-> "err", v |-> None, e |-> e]
Panic(e) == [kind |-> "panic", v |-> None, e |-> e]
IsOk(r) == r.kind = "ok"
Val(r) == r.v[1]

\* serde_json string escaping: a quote or a backslash gets a backslash.
RECURSIVE Escape(_)
Escape(s) ==
    IF s = <<>> THEN <<>>
    ELSE IF Head(s) \in {"\"", "\\"}
         THEN <<"\\", Head(s)>> \o Escape(Tail(s))
         ELSE <<Head(s)>> \o Escape(Tail(s))

\* The inverse on the inside of a string literal; None when the inside holds
\* a bare quote or ends in a lone backslash.
RECURSIVE Unescape(_)
Unescape(s) ==
    IF s = <<>> THEN Some(<<>>)
    ELSE IF Head(s) = "\\"
         THEN IF Len(s) < 2 THEN None
              ELSE LET rest == Unescape(Tail(Tail(s)))
                   IN IF rest = None THEN None ELSE Some(<<s[2]>> \o rest[1])
    ELSE IF Head(s) = "\"" THEN None
         ELSE LET rest == Unescape(Tail(s))
              IN IF rest = None THEN None ELSE Some(<<Head(s)>> \o rest[1])

\* serde_json::to_string of a value.
JsonToString(v) ==
    IF v.t = "num" THEN <<DigitOf(v.n)>>
    ELSE <<"\"">> \o Escape(v.s) \o <<"\"">>

\* serde_json::from_reader / the evaluator's reading of a JSON literal.
JsonParse(text) ==
    IF Len(text) = 1 /\ text[1] \in DigitSet THEN Ok(Num(DigitValue(text[1])))
    ELSE IF Len(text) >= 2 /\ text[1] = "\"" /\ text[Len(text)] = "\""
         THEN LET inner == Unescape(SubSeq(text, 2, Len(text) - 1))
              IN IF inner = None \/ BadByte \in {inner[1][i] : i \in 1..Len(inner[1])}
                 THEN Err("json") ELSE Ok(Str(inner[1]))
    ELSE Err("json")

\* Read::read_to_string: fails on bytes that are not UTF-8.
ReadToString(body) ==
    IF BadByte \in {body[i] : i \in 1..Len(body)} THEN Err("utf8") ELSE Ok(body)

\* serde_json::to_string(&InputData { body }).
InputDataToString(body) == <<"{", "\"body\"", ":">> \o JsonToString(body) \o <<"}">>

\* ------------------------------------------------ the embedded evaluator
\* jsonnet sources are named by what their process function does.
Programs == {"gauge", "labels", "counter", "novalue", "fails", "regex", "syntax"}

\* jrsonnet's parser, as state.add_file meets it.
Parses(code) == code # "syntax"

\* add_ext_code evaluates the input text as a snippet; the model reads the
\* JSON objects {"body": <number or string>} and rejects every other text.
ExtParse(text) ==
    IF Len(text) >= 5 /\ SubSeq(text, 1, 3) = <<"{", "\"body\"", ":">> /\ text[Len(text)] = "}"
    THEN LET v == JsonParse(SubSeq(text, 4, Len(text) - 1))
         IN IF IsOk(v) THEN Ok([body |-> Val(v)]) ELSE Err("ext_code")
    ELSE Err("ext_code")

Series(lv, value) == [label_values |-> lv, value |-> value]
MetricDoc(type, help, ln, series) ==
    [name |-> "m", type |-> type, help |-> help, label_names |-> ln, series |-> series]

\* process reads a numeric body as the sample value and any other body as 0.
BodyNumber(body) == IF body.t = "num" THEN body.n ELSE 0

\* s.process(std.extVar("input")) followed by state.manifest: the manifest
\* document of each program, or how the evaluation fails.
Process(program, input) ==
    LET n == BodyNumber(input.body) IN
    CASE program = "gauge" ->
           Ok(<<MetricDoc("gauge", None, None, Some(<<Series(None, Some(n))>>))>>)
      [] program = "labels" ->
           \* a numeric body gets one label value, a string body none
           Ok(<<MetricDoc("gauge", Some("h"), Some(<<"l">>),
                          Some(<<Series(IF input.body.t = "num" THEN Some(<<"v">>) ELSE None,
                                        Some(n))>>))>>)
      [] program = "counter" ->
           Ok(<<MetricDoc("counter", None, None, Some(<<Series(None, Some(n))>>))>>)
      [] program = "novalue" ->
           Ok(<<MetricDoc("gauge", None, None, Some(<<Series(None, None)>>))>>)
      [] program = "regex" -> Panic("Regex::new(regex).unwrap()")
      [] OTHER -> Err("evaluate_snippet_raw")

\* ------------------------------------------------------ ConfigModule::state
ConfigModule(jsonnet, jsonnet_path, tests) ==
    [jsonnet |-> jsonnet, jsonnet_path |-> jsonnet_path, tests |-> tests]

\* A variant of the match below in which the inline source wins over the path.
StateSourceInlineWins(m, fs) ==
    IF m.jsonnet # None THEN Ok([path |-> "inline.jsonnet", code |-> m.jsonnet[1]])
    ELSE IF m.jsonnet_path = None THEN Err("One of 'jsonnet' or 'jsonnet_path' has to be set")
    ELSE IF fs = None THEN Err("File::open")
    ELSE Ok([path |-> m.jsonnet_path[1], code |-> fs[1]])

\* The match on (jsonnet, jsonnet_path): the import path and the source text.
StateSource(m, fs) ==
    IF m.jsonnet # None /\ m.jsonnet_path # None
    THEN Err("Only one of 'jsonnet' and 'jsonnet_path' can be set")
    ELSE IF m.jsonnet = None /\ m.jsonnet_path = None
    THEN Err("One of 'jsonnet' or 'jsonnet_path' has to be set")
    ELSE IF m.jsonnet # None
    THEN Ok([path |-> "inline.jsonnet", code |-> m.jsonnet[1]])
    ELSE IF fs = None THEN Err("File::open")
         ELSE Ok([path |-> m.jsonnet_path[1], code |-> fs[1]])

\* A Module: the import path, the program added under it, and the evaluation
\* state's external variable "input".
Module(path, program) == [path |-> path, program |-> program, ext |-> None]

State(m, fs) ==
    LET src == StateSource(m, fs) IN
    IF ~IsOk(src) THEN Err(src.e)
    ELSE IF ~Parses(Val(src).code) THEN Err("add_file")
    ELSE Ok(Module(Val(src).path, Val(src).code))

\* ------------------------------------------------------------ Module::eval
PlaceholderHelp ==
    "jsonnet-exporter: Metric help is missing, consider adding a help text to the module config."

\* serde_json::from_str::<Metrics>: the only metric type is "gauge", every
\* series needs a value, label_names / label_values / help stay optional and
\* an absent series is empty.
DecodeMetric(d) ==
    LET series == IF d.series = None THEN <<>> ELSE d.series[1] IN
    IF d.type # "gauge" THEN Err("unknown variant")
    ELSE IF \E i \in 1..Len(series) : series[i].value = None THEN Err("missing field value")
    ELSE Ok([name |-> d.name, label_names |-> d.label_names, help |-> d.help,
             series |-> [i \in 1..Len(series) |->
                            [label_values |-> series[i].label_values,
                             value |-> series[i].value[1]]]])

Decode(doc) ==
    IF \E i \in 1..Len(doc) : ~IsOk(DecodeMetric(doc[i]))
    THEN Err(DecodeMetric(doc[CHOOSE i \in 1..Len(doc) : ~IsOk(DecodeMetric(doc[i]))]).e)
    ELSE Ok([i \in 1..Len(doc) |-> Val(DecodeMetric(doc[i]))])

OrEmpty(opt) == IF opt = None THEN <<>> ELSE opt[1]

RECURSIVE LabelTokens(_, _)
LabelTokens(ln, lv) ==
    IF ln = <<>> THEN <<>>
    ELSE <<Head(ln), "=", Head(lv)>> \o LabelTokens(Tail(ln), Tail(lv))

SampleLine(name, ln, lv, value) ==
    <<name>> \o (IF ln = <<>> THEN <<>> ELSE <<"{">> \o LabelTokens(ln, lv) \o <<"}">>)
             \o <<DigitOf(value)>>

\* m.with_label_values(&label_values).set(s.value) for each series in turn:
\* with_label_values unwraps, so a wrong number of values panics.
RECURSIVE SetSeries(_, _, _)
SetSeries(name, ln, series) ==
    IF series = <<>> THEN Ok(<<>>)
    ELSE LET lv == OrEmpty(Head(series).label_values) IN
         IF Len(lv) # Len(ln) THEN Panic("with_label_values")
         ELSE LET rest == SetSeries(name, ln, Tail(series)) IN
              IF ~IsOk(rest) THEN rest
              ELSE Ok(<<SampleLine(name, ln, lv, Head(series).value)>> \o Val(rest))

\* One pass of the loop over the metrics: GaugeVec::new (which refuses a
\* label name given twice), registry.register, then the series.
RenderMetric(m) ==
    LET ln == OrEmpty(m.label_names)
        help == IF m.help = None THEN PlaceholderHelp ELSE m.help[1]
    IN IF \E i, j \in 1..Len(ln) : i # j /\ ln[i] = ln[j] THEN Err("GaugeVec::new")
       ELSE LET samples == SetSeries(m.name, ln, m.series) IN
            IF ~IsOk(samples) THEN samples
            ELSE IF Val(samples) = <<>> THEN Ok(<<>>)
            ELSE Ok(<<<<"# HELP", m.name, help>>, <<"# TYPE", m.name, "gauge">>>>
                    \o Val(samples))

\* The loop, registry.gather and encoder.encode: the exposition text.
RECURSIVE Render(_)
Render(ms) ==
    IF ms = <<>> THEN Ok(<<>>)
    ELSE LET first == RenderMetric(Head(ms)) IN
         IF ~IsOk(first) THEN first
         ELSE LET rest == Render(Tail(ms)) IN
              IF ~IsOk(rest) THEN rest ELSE Ok(Val(first) \o Val(rest))

\* A variant of the binding below that keeps an earlier binding.
AddExtCodeKeepFirst(module, input) ==
    LET v == ExtParse(input) IN
    IF ~IsOk(v) THEN Err(v.e)
    ELSE IF module.ext # None THEN Ok(module)
    ELSE Ok([module EXCEPT !.ext = Some(Val(v))])

\* state.add_ext_code("input", input): binds the external variable, replacing
\* an earlier binding.
AddExtCode(module, input) ==
    LET v == ExtParse(input) IN
    IF ~IsOk(v) THEN Err(v.e) ELSE Ok([module EXCEPT !.ext = Some(Val(v))])

\* The rest of eval: evaluate the snippet against the bound input, manifest,
\* decode, render.
Evaluate(module) ==
    IF module.ext = None THEN Err("undefined external variable")
    ELSE LET doc == Process(module.program, module.ext[1]) IN
         IF ~IsOk(doc) THEN doc
         ELSE LET metrics == Decode(Val(doc)) IN
              IF ~IsOk(metrics) THEN metrics ELSE Render(Val(metrics))

\* Module::eval(&self, input): the module afterwards and the Result.
Eval(module, input) ==
    LET bound == AddExtCode(module, input) IN
    IF ~IsOk(bound) THEN [module |-> module, result |-> Err(bound.e)]
    ELSE [module |-> Val(bound), result |-> Evaluate(Val(bound))]

\* ------------------------------------------------------------- the inputs
Test(input, output) == [input |-> input, output |-> output]

In1 == InputDataToString(Num(1))
In2 == InputDataToString(Num(2))
InX == InputDataToString(Str(<<"x">>))
InBad == <<"{">>

GaugeText(n) ==
    <<<<"# HELP", "m", PlaceholderHelp>>, <<"# TYPE", "m", "gauge">>, <<"m", DigitOf(n)>>>>
LabelsText(n) ==
    <<<<"# HELP", "m", "h">>, <<"# TYPE", "m", "gauge">>,
      <<"m", "{", "l", "=", "v", "}", DigitOf(n)>>>>
WrongText == <<<<"m", "0">>>>

Inline(program, tests) == ConfigModule(Some(program), None, tests)
FilePath == "f.jsonnet"

\* The configurations the config file may hold: one or two modules, whose
\* tests pass, differ or raise an error, or which have none.
Configs ==
    { "a" :> Inline("labels", Some(<<Test(In1, WrongText), Test(In2, LabelsText(2))>>)),
      "a" :> ConfigModule(None, Some(FilePath), Some(<<Test(In2, GaugeText(2))>>)),
      "a" :> Inline("counter", None),
      "a" :> Inline("gauge", Some(<<Test(In1, WrongText)>>))
         @@ "b" :> ConfigModule(Some("gauge"), Some(FilePath), None),
      "a" :> ConfigModule(None, None, None),
      "a" :> Inline("syntax", None),
      "a" :> Inline("gauge", Some(<<Test(In1, WrongText)>>))
         @@ "b" :> Inline("fails", Some(<<Test(In1, <<>>)>>)),
      "a" :> Inline("labels", Some(<<Test(InX, LabelsText(0))>>)),
      "a" :> Inline("gauge", Some(<<Test(InBad, GaugeText(0))>>)),
      "a" :> Inline("counter", Some(<<Test(In1, <<>>)>>)),
      "a" :> Inline("novalue", Some(<<Test(In1, <<>>)>>)),
      "a" :> Inline("regex", Some(<<Test(In1, <<>>)>>)) }

\* What the module file holds, if it exists; it is not changed while the
\* process runs.
FileStates == {None, Some("gauge")}

ParamModules == {None, Some("a"), Some("b")}
ParamTargets == {None, Some("http://t"), Some("")}
\* http::Uri's FromStr: the empty string is no URI.
UriParses(target) == target # ""

JsonContentType == "application/json"
ContentTypes == {None, Some(JsonContentType), Some("application/json; charset=utf-8")}
Bodies == {<<"1">>, <<"x">>, <<"\"", "x", "\"">>, <<BadByte>>}

\* -------------------------------------------------------------- the state
VARIABLES
    config,     \* APP.config.modules, read once from the config file
    fs,         \* the content of the module file, None if it does not exist
    phase,      \* "validating", "serving" or "exited" (a start-up panic)
    pending,    \* modules Config::validate has not visited yet
    vmod,       \* ConfigModule::validate in progress: its Module and test index
    ran,        \* per module, the number of test cases evaluated
    diffs,      \* the test cases whose diff was logged
    exitMsg,    \* the panic message of a failed start-up
    lastCall,   \* the latest Module::eval call of the validation
    req,        \* the /probe requests
    engines     \* the Module each request built

vars == <<config, fs, phase, pending, vmod, ran, diffs, exitMsg, lastCall, req, engines>>

NoOutcome == [kind |-> "none", status |-> 0, error |-> "", name |-> "", body |-> <<>>]
RespondOK(text) ==
    [kind |-> "RespondOK", status |-> 200, error |-> "", name |-> "", body |-> text]
\* warp answers a custom rejection no filter recovers with 500.
RespondError(error, name) ==
    [kind |-> "RespondError", status |-> 500, error |-> error, name |-> name, body |-> <<>>]
\* The handler's task unwinds: the request gets no response.
Panicked(what) ==
    [kind |-> "Panic", status |-> 0, error |-> what, name |-> "", body |-> <<>>]

IdleRequest ==
    [pc |-> "idle", module |-> None, target |-> None, ct |-> None, body |-> None,
     data |-> None, fetched |-> FALSE, evaluated |-> FALSE, result |-> None,
     outcome |-> NoOutcome]

Init ==
    /\ config \in Configs
    /\ fs \in IF \E n \in DOMAIN config : config[n].jsonnet_path # None
                THEN FileStates ELSE {None}
    /\ phase = "validating"
    /\ pending = DOMAIN config
    /\ vmod = None
    /\ ran = [n \in DOMAIN config |-> 0]
    /\ diffs = {}
    /\ exitMsg = None
    /\ lastCall = None
    /\ req = [r \in Requests |-> IdleRequest]
    /\ engines = [r \in Requests |-> None]

\* ------------------------------------------------------------ validation
Tests(m) == OrEmpty(m.tests)

\* A variant of the comparison below in which a difference ends the validation.
CompareTestFatal(actual, expected) ==
    [diff |-> actual # expected, fatal |-> actual # expected]

\* The comparison of a test's output: a difference is logged, never fatal.
CompareTest(actual, expected) == [diff |-> actual # expected, fatal |-> FALSE]

\* A variant of the propagation below that swallows every error.
ValidateFailsNever(result) == FALSE

\* map_err(..)? in Config::validate, and ? in ConfigModule::validate: an Err
\* (or a panic unwinding through them) ends the validation.
ValidateFails(result) == ~IsOk(result)

Exit(name, e) ==
    /\ phase' = "exited"
    /\ exitMsg' = Some([module |-> name, e |-> e])
    /\ vmod' = None

\* Config::validate takes the next module of the map (in the map's order) and
\* ConfigModule::validate builds its Module.
ValidateModule(name) ==
    /\ phase = "validating" /\ vmod = None /\ name \in pending
    /\ LET st == State(config[name], fs) IN
       IF IsOk(st)
       THEN /\ vmod' = Some([name |-> name, module |-> Val(st), idx |-> 1])
            /\ UNCHANGED <<phase, exitMsg, pending>>
       ELSE IF ValidateFails(st)
       THEN Exit(name, st.e) /\ UNCHANGED pending
       ELSE /\ pending' = pending \ {name}
            /\ UNCHANGED <<phase, exitMsg, vmod>>
    /\ UNCHANGED <<config, fs, ran, diffs, lastCall, req, engines>>

\* One pass of the loop over the tests: eval, compare, log the diff.
ValidateTest ==
    /\ phase = "validating" /\ vmod # None
    /\ LET v == vmod[1]
           tests == Tests(config[v.name])
       IN /\ v.idx <= Len(tests)
          /\ LET test == tests[v.idx]
                 call == Eval(v.module, test.input)
             IN /\ lastCall' = Some([name |-> v.name, idx |-> v.idx,
                                     input |-> test.input, result |-> call.result])
                /\ ran' = [ran EXCEPT ![v.name] = @ + 1]
                /\ IF ~IsOk(call.result)
                   THEN IF ValidateFails(call.result)
                        THEN Exit(v.name, call.result.e) /\ UNCHANGED <<diffs, pending>>
                        ELSE /\ pending' = pending \ {v.name}
                             /\ vmod' = None
                             /\ UNCHANGED <<phase, exitMsg, diffs>>
                   ELSE LET cmp == CompareTest(Val(call.result), test.output) IN
                        IF cmp.fatal
                        THEN Exit(v.name, "test failed") /\ UNCHANGED <<diffs, pending>>
                        ELSE /\ vmod' = Some([v EXCEPT !.module = call.module, !.idx = @ + 1])
                             /\ diffs' = IF cmp.diff THEN diffs \cup {<<v.name, v.idx>>}
                                         ELSE diffs
                             /\ UNCHANGED <<phase, exitMsg, pending>>
    /\ UNCHANGED <<config, fs, req, engines>>

\* ConfigModule::validate returns Ok(()) after the last test.
ValidateModuleDone ==
    /\ phase = "validating" /\ vmod # None
    /\ vmod[1].idx > Len(Tests(config[vmod[1].name]))
    /\ pending' = pending \ {vmod[1].name}
    /\ vmod' = None
    /\ UNCHANGED <<config, fs, phase, ran, diffs, exitMsg, lastCall, req, engines>>

\* Config::validate returned Ok(()): main builds the routes and serves.
Serve ==
    /\ phase = "validating" /\ vmod = None /\ pending = {}
    /\ phase' = "serving"
    /\ UNCHANGED <<config, fs, pending, vmod, ran, diffs, exitMsg, lastCall, req, engines>>

\* ------------------------------------------------------------ /probe
\* A variant of the checks below that requires both parameters before it
\* consults the registry.
ParseParamsTargetFirst(cfg, module, target) ==
    IF module = None THEN RespondError("MissingParameter", "module")
    ELSE IF target = None THEN RespondError("MissingParameter", "target")
    ELSE IF module[1] \notin DOMAIN cfg THEN RespondError("ModuleNotFound", module[1])
    ELSE IF ~UriParses(target[1]) THEN RespondError("InvalidTargetUrl", "")
    ELSE NoOutcome

\* A variant of the checks below that names the wrong parameter.
ParseParamsUnnamed(cfg, module, target) ==
    IF module = None THEN RespondError("MissingParameter", "module")
    ELSE IF module[1] \notin DOMAIN cfg THEN RespondError("ModuleNotFound", module[1])
    ELSE IF target = None THEN RespondError("MissingParameter", "module")
    ELSE IF ~UriParses(target[1]) THEN RespondError("InvalidTargetUrl", "")
    ELSE NoOutcome

\* probe_handler up to the fetch: the module parameter, the registry lookup,
\* the target parameter, the URI.  NoOutcome: the handler goes on.
ParseParams(cfg, module, target) ==
    IF module = None THEN RespondError("MissingParameter", "module")
    ELSE IF module[1] \notin DOMAIN cfg THEN RespondError("ModuleNotFound", module[1])
    ELSE IF target = None THEN RespondError("MissingParameter", "target")
    ELSE IF ~UriParses(target[1]) THEN RespondError("InvalidTargetUrl", "")
    ELSE NoOutcome

\* The match on the Content-Type header: the body parsed as JSON, or read as
\* a string (read_to_string(..).unwrap()).
BuildInput(ct, body) ==
    IF ct = Some(JsonContentType)
    THEN LET parsed == JsonParse(body) IN
         IF IsOk(parsed) THEN parsed ELSE Err("TargetJSONParse")
    ELSE LET text == ReadToString(body) IN
         IF IsOk(text) THEN Ok(Str(Val(text))) ELSE Panic("read_to_string(..).unwrap()")

\* A variant of the slot below: one Module shared by all requests.
EngineShared(r) == 1

\* module.state() builds a Module of the request's own.
EngineSlot(r) == r

Done(r, outcome) == [req EXCEPT ![r].pc = "done", ![r].outcome = outcome]

\* A request arrives; the handler runs until it awaits client.get(uri).
ProbeStart(r, module, target) ==
    /\ phase = "serving" /\ req[r].pc = "idle"
    /\ LET rejected == ParseParams(config, module, target)
           got == [req EXCEPT ![r].module = module, ![r].target = target]
       IN req' = IF rejected.kind # "none"
                 THEN [got EXCEPT ![r].pc = "done", ![r].outcome = rejected]
                 ELSE [got EXCEPT ![r].pc = "get", ![r].fetched = TRUE]
    /\ UNCHANGED <<config, fs, phase, pending, vmod, ran, diffs, exitMsg, lastCall, engines>>

\* client.get(uri).await: a transport error, or the response's headers.
ProbeGet(r, ok, ct) ==
    /\ req[r].pc = "get"
    /\ req' = IF ok THEN [req EXCEPT ![r].pc = "aggregate", ![r].ct = ct]
              ELSE Done(r, RespondError("TargetHTTP", ""))
    /\ UNCHANGED <<config, fs, phase, pending, vmod, ran, diffs, exitMsg, lastCall, engines>>

\* hyper::body::aggregate(resp).await failed.
ProbeBodyError(r) ==
    /\ req[r].pc = "aggregate"
    /\ req' = Done(r, RespondError("TargetHTTP", ""))
    /\ UNCHANGED <<config, fs, phase, pending, vmod, ran, diffs, exitMsg, lastCall, engines>>

\* The body arrived: the input is built and encoded, module.state() builds
\* the Module and eval binds the input to it.
ProbeBody(r, body) ==
    /\ req[r].pc = "aggregate"
    /\ LET value == BuildInput(req[r].ct, body)
           got == [req EXCEPT ![r].body = Some(body)]
       IN IF value.kind = "err"
          THEN /\ req' = [got EXCEPT ![r].pc = "done",
                                     ![r].outcome = RespondError(value.e, "")]
               /\ UNCHANGED engines
          ELSE IF value.kind = "panic"
          THEN /\ req' = [got EXCEPT ![r].pc = "done", ![r].outcome = Panicked(value.e)]
               /\ UNCHANGED engines
          ELSE LET data == InputDataToString(Val(value))
                   st == State(config[req[r].module[1]], fs)
                   withData == [got EXCEPT ![r].data = Some(data)]
               IN IF ~IsOk(st)
                  THEN /\ req' = [withData EXCEPT ![r].pc = "done",
                                      ![r].outcome = Panicked("state().unwrap()")]
                       /\ UNCHANGED engines
                  ELSE LET bound == AddExtCode(Val(st), data) IN
                       IF ~IsOk(bound)
                       THEN /\ req' = [withData EXCEPT ![r].pc = "done",
                                           ![r].evaluated = TRUE,
                                           ![r].result = Some(Err(bound.e)),
                                           ![r].outcome = Panicked("eval(&data).unwrap()")]
                            /\ UNCHANGED engines
                       ELSE /\ req' = [withData EXCEPT ![r].pc = "evaluate",
                                                       ![r].evaluated = TRUE]
                            /\ engines' = [engines EXCEPT ![EngineSlot(r)] = bound.v]
    /\ UNCHANGED <<config, fs, phase, pending, vmod, ran, diffs, exitMsg, lastCall>>

\* The rest of eval (evaluate, manifest, decode, render), the unwrap of its
\* Result and the reply.
ProbeEvaluate(r) ==
    /\ req[r].pc = "evaluate" /\ engines[EngineSlot(r)] # None
    /\ LET result == Evaluate(engines[EngineSlot(r)][1]) IN
       req' = [req EXCEPT ![r].pc = "done", ![r].result = Some(result),
                          ![r].outcome = IF IsOk(result) THEN RespondOK(Val(result))
                                         ELSE Panicked("eval(&data).unwrap()")]
    /\ engines' = [engines EXCEPT ![EngineSlot(r)] = None]
    /\ UNCHANGED <<config, fs, phase, pending, vmod, ran, diffs, exitMsg, lastCall>>

Next ==
    \/ \E name \in {"a", "b"} : ValidateModule(name)
    \/ ValidateTest
    \/ ValidateModuleDone
    \/ Serve
    \/ \E r \in Requests, module \in ParamModules, target \in ParamTargets :
          ProbeStart(r, module, target)
    \/ \E r \in Requests, ok \in BOOLEAN, ct \in ContentTypes : ProbeGet(r, ok, ct)
    \/ \E r \in Requests : ProbeBodyError(r)
    \/ \E r \in Requests, body \in Bodies : ProbeBody(r, body)
    \/ \E r \in Requests : ProbeEvaluate(r)

Spec == Init /\ [][Next]_vars

\* ---------------------------------------------------------------- claims
Started(r) == req[r].pc # "idle"
Finished(r) == req[r].pc = "done"
ModuleOf(r) == config[req[r].module[1]]

\* A module passes the validation: its Module is built and no test case
\* raises an error, each evaluated by a Module of its own.
ModuleValidates(m) ==
    LET st == State(m, fs) IN
    /\ IsOk(st)
    /\ \A i \in 1..Len(Tests(m)) : IsOk(Eval(Val(st), Tests(m)[i].input).result)

\* The test cases of the configuration whose output differs from the expected.
Mismatches ==
    {t \in UNION {{<<n, i>> : i \in 1..Len(Tests(config[n]))} : n \in DOMAIN config} :
        LET m == config[t[1]]
            call == Eval(Val(State(m, fs)), Tests(m)[t[2]].input)
        IN /\ IsOk(State(m, fs))
           /\ IsOk(call.result)
           /\ Val(call.result) # Tests(m)[t[2]].output}

ExactlyOneSource(m) == (m.jsonnet = None) # (m.jsonnet_path = None)

\* C1: every request that reached the evaluation ends in RespondOK or in
\* RespondError, and a failed evaluation ends it in RespondError.
C1_EvalFailureIsRespondError ==
    \A r \in Requests :
        Finished(r) /\ req[r].evaluated =>
            /\ req[r].outcome.kind \in {"RespondOK", "RespondError"}
            /\ (~IsOk(req[r].result[1]) => req[r].outcome.kind = "RespondError")

\* C2: a request naming a module that is not in the registry ends with
\* ModuleNotFound(name) and never fetches, whatever its target parameter.
C2_UnknownModuleNeverFetches ==
    \A r \in Requests :
        Started(r) /\ req[r].module # None /\ req[r].module[1] \notin DOMAIN config =>
            /\ Finished(r)
            /\ req[r].outcome = RespondError("ModuleNotFound", req[r].module[1])
            /\ ~req[r].fetched

C2_Witness ==
    \E r \in Requests :
        /\ Finished(r) /\ req[r].module = Some("b") /\ "b" \notin DOMAIN config
        /\ req[r].target = Some("http://t")
        /\ req[r].outcome.error = "ModuleNotFound"

\* C3 as stated: a request with module or target missing ends with
\* MissingParameter naming the missing parameter, before the registry is
\* consulted, and never fetches.
C3_MissingParameterFirst ==
    \A r \in Requests :
        Started(r) /\ (req[r].module = None \/ req[r].target = None) =>
            /\ Finished(r)
            /\ req[r].outcome = RespondError("MissingParameter",
                                    IF req[r].module = None THEN "module" ELSE "target")
            /\ ~req[r].fetched

\* C3 amended: a missing module parameter ends the request with
\* MissingParameter("module"); a missing target ends it with
\* MissingParameter("target") when the named module is in the registry and
\* with ModuleNotFound(name) when it is not; no such request fetches.
C3_MissingParameterAfterLookup ==
    \A r \in Requests :
        Started(r) /\ (req[r].module = None \/ req[r].target = None) =>
            /\ Finished(r)
            /\ ~req[r].fetched
            /\ req[r].outcome =
                 IF req[r].module = None THEN RespondError("MissingParameter", "module")
                 ELSE IF req[r].module[1] \notin DOMAIN config
                 THEN RespondError("ModuleNotFound", req[r].module[1])
                 ELSE RespondError("MissingParameter", "target")

C3_Witness ==
    \E r \in Requests :
        /\ Finished(r) /\ req[r].module = Some("a") /\ req[r].target = None
        /\ req[r].outcome = RespondError("MissingParameter", "target")

\* C4: the server serves only after the whole configuration validated: if a
\* module has no usable source, fails to load or raises an error in a test
\* case, the start-up ends and no request is ever handled.
C4_ServesOnlyValidated ==
    /\ (phase = "serving" \/ \E r \in Requests : Started(r)) =>
           /\ pending = {} /\ exitMsg = None
           /\ \A n \in DOMAIN config : ModuleValidates(config[n])
    /\ phase = "exited" => exitMsg # None /\ \A r \in Requests : ~Started(r)

C4_Witness ==
    /\ phase = "exited" /\ exitMsg # None
    /\ exitMsg[1].e = "evaluate_snippet_raw"
    /\ ran[exitMsg[1].module] > 0

\* C5: a test whose output differs is never fatal: the start-up ends only on
\* a module's error, and a start-up that serves has run every test case of
\* every module and logged a diff for exactly the differing ones.
C5_MismatchNotFatal ==
    /\ phase = "exited" => \E n \in DOMAIN config : ~ModuleValidates(config[n])
    /\ diffs \subseteq Mismatches
    /\ phase = "serving" =>
           /\ \A n \in DOMAIN config : ran[n] = Len(Tests(config[n]))
           /\ diffs = Mismatches

C5_Witness ==
    /\ phase = "serving"
    /\ \E t \in diffs : t[2] < ran[t[1]]

ArityMismatch(ms) ==
    \E i \in 1..Len(ms) : \E j \in 1..Len(ms[i].series) :
        Len(OrEmpty(ms[i].series[j].label_values)) # Len(OrEmpty(ms[i].label_names))

RendersByArity(m, input, result) ==
    LET bound == ExtParse(input)
        doc == Process(m.program, Val(bound))
        metrics == Decode(Val(doc))
    IN IsOk(bound) /\ IsOk(doc) /\ IsOk(metrics) =>
          IF ArityMismatch(Val(metrics)) THEN result = Err("LabelArityMismatch")
          ELSE IsOk(result)

\* C6: rendering returns a LabelArityMismatch error whenever a series has
\* another number of label values than its metric has label names, and
\* succeeds when the numbers are equal throughout (zero and zero included).
C6_ArityMismatchIsError ==
    /\ lastCall # None =>
          RendersByArity(Val(State(config[lastCall[1].name], fs)), lastCall[1].input,
                         lastCall[1].result)
    /\ \A r \in Requests :
          req[r].result # None =>
              RendersByArity(Val(State(ModuleOf(r), fs)), req[r].data[1], req[r].result[1])

\* C7: a Module is built only from a ModuleSpec with exactly one of jsonnet
\* and jsonnet_path: with both or neither, state returns an error, at the
\* validation and in a request alike.
C7_ExactlyOneSource ==
    /\ vmod # None => ExactlyOneSource(config[vmod[1].name])
    /\ \A n \in DOMAIN config :
          ~ExactlyOneSource(config[n]) /\ n \notin pending =>
              phase = "exited" /\ exitMsg[1].module = n /\ ran[n] = 0
    /\ \A r \in Requests :
          (req[r].evaluated \/ engines[r] # None) => ExactlyOneSource(ModuleOf(r))

C7_Witness ==
    /\ phase = "exited" /\ exitMsg # None
    /\ exitMsg[1].e = "Only one of 'jsonnet' and 'jsonnet_path' can be set"
    /\ config[exitMsg[1].module].jsonnet # None
    /\ config[exitMsg[1].module].jsonnet_path # None

\* C8: the body is parsed as JSON exactly when the Content-Type is
\* application/json, a parse failure ends the request with TargetJSONParse
\* before any evaluation, any other body becomes one JSON string, and the
\* module receives the encoding of {body: value}.
C8_BuildInput ==
    \A r \in Requests :
        req[r].body # None =>
            IF req[r].ct = Some(JsonContentType)
            THEN LET parsed == JsonParse(req[r].body[1]) IN
                 IF IsOk(parsed)
                 THEN req[r].evaluated /\ req[r].data = Some(InputDataToString(Val(parsed)))
                 ELSE /\ Finished(r) /\ ~req[r].evaluated
                      /\ req[r].outcome = RespondError("TargetJSONParse", "")
            ELSE /\ req[r].evaluated
                 /\ req[r].data = Some(InputDataToString(Str(req[r].body[1])))

\* C9: each eval call on one Module evaluates the input of that call: its
\* result is the one a Module that never saw another input gives.
C9_NoStaleBinding ==
    /\ lastCall # None =>
          lastCall[1].result =
              Eval(Val(State(config[lastCall[1].name], fs)), lastCall[1].input).result
    /\ vmod # None /\ vmod[1].idx > 1 =>
          vmod[1].module.ext =
              ExtParse(Tests(config[vmod[1].name])[vmod[1].idx - 1].input).v

C9_Witness ==
    /\ lastCall # None /\ lastCall[1].idx = 2 /\ IsOk(lastCall[1].result)
    /\ lastCall[1].input # Tests(config[lastCall[1].name])[1].input
    /\ lastCall[1].result # Eval(Val(State(config[lastCall[1].name], fs)),
                                 Tests(config[lastCall[1].name])[1].input).result

\* The response of a request that is the only one the server handles.
ServedAlone(m, ct, body) ==
    LET value == BuildInput(ct, body) IN
    IF value.kind = "err" THEN RespondError(value.e, "")
    ELSE IF value.kind = "panic" THEN Panicked(value.e)
    ELSE LET st == State(m, fs) IN
         IF ~IsOk(st) THEN Panicked("state().unwrap()")
         ELSE LET call == Eval(Val(st), InputDataToString(Val(value))) IN
              IF IsOk(call.result) THEN RespondOK(Val(call.result))
              ELSE Panicked("eval(&data).unwrap()")

\* C10: whatever the interleaving, a request's response is the one it gets
\* when served alone, each request evaluates on a Module of its own bound to
\* its own input, and the configuration stays the validated one.
C10_RequestsIsolated ==
    \A r \in Requests :
        /\ Finished(r) /\ req[r].body # None =>
              req[r].outcome = ServedAlone(ModuleOf(r), req[r].ct, req[r].body[1])
        /\ Finished(r) /\ req[r].body = None =>
              \/ req[r].outcome = ParseParams(config, req[r].module, req[r].target)
              \/ req[r].fetched /\ req[r].outcome = RespondError("TargetHTTP", "")
        /\ req[r].pc = "evaluate" =>
              /\ engines[r] # None
              /\ engines[r][1].program = Val(State(ModuleOf(r), fs)).program
              /\ engines[r][1].ext = ExtParse(req[r].data[1]).v

C10_Witness ==
    /\ req[1].pc = "done" /\ req[1].outcome.kind = "Panic" /\ req[1].evaluated
    /\ req[2].pc = "done" /\ req[2].outcome.kind = "RespondOK"
    /\ req[1].module = req[2].module
====
